---------------------------- MODULE Spec2Model ----------------------------
(***************************************************************************)
(* State-machine model of twiver.stream.Twitter (src/twiver/stream/        *)
(* twitter.py): the generator __iter__ that yields (i, x, None) for every  *)
(* incoming tweet and (i_old, x_old, y_old) once the delayed ground truth  *)
(* has been fetched in batches by targets().                               *)
(*                                                                         *)
(* The program counter pc names the place where the single thread of       *)
(* control of the running generator stands:                                *)
(*   "start"    before the HTTP stream is opened (twitter_stream)          *)
(*   "next"     at the head of the for loop, waiting for the next tweet    *)
(*   "drain"    at the head of the while loop over mementos                *)
(*   "fetch"    inside targets(), HTTP request for the ids in flight       *)
(*   "emit"     inside targets(), iterating over tweets["data"]            *)
(*   "enqueue"  after the while loop, before queue(...) and the yield      *)
(*   "done"     the stream ended and the generator returned                *)
(*   "raised"   an exception left the generator                            *)
(* The variables taken, out, offers and fetches record the history of the  *)
(* object; the program does not read them.  The variables edited and       *)
(* started record what the caller did: which yielded features it modified  *)
(* in place, and when it called iter() on the object.                      *)
(***************************************************************************)
EXTENDS Integers, Sequences, FiniteSets, TLC

(***************************************************************************)
(* Bounds of the model.                                                    *)
(***************************************************************************)
MaxEvents == 4      \* the object takes at most MaxEvents tweets from the stream
MaxT      == 1      \* created_at of a generic tweet is in 0..MaxT
MaxDelay  == 1      \* a generic delay is a timedelta in -1..MaxDelay
MaxMin    == 2      \* generic minimum_header_size is in 0..MaxMin
MaxMax    == 2      \* generic maximum_header_size is in 0..MaxMax
MaxRuns   == 2      \* the caller iterates over the object at most MaxRuns times

VARIABLES
    delay,                  \* self.delay
    moment,                 \* self.moment
    key_field,              \* self.key
    minimum_header_size,    \* self.minimum_header_size
    maximum_header_size,    \* self.maximum_header_size
    copy,                   \* self.copy
    timeline,               \* the created_at values the tweets of this run may carry
    stream_status,          \* status of the GET that opened the stream (0: not opened yet)
    pc,                     \* position of the thread of control
    exc,                    \* the exception that left the generator ("" if none)
    n,                      \* enumerate()'s counter: tweets taken by the running generator
    cur,                    \* the loop locals i, x, t, d, key
    mementos,               \* the list mementos of __iter__
    y_queue,                \* self.y_queue, a dict in insertion order
    ids,                    \* the local ids of targets()
    tweets,                 \* what is left to iterate of tweets["data"] in targets()
    taken,                  \* history: the tweets taken from the stream, in arrival order
    out,                    \* history: the triples yielded to the consumer
    offers,                 \* history: one record per call of targets()
    fetches,                \* history: one record per HTTP request of targets()
    edited,                 \* caller: the indices whose yielded features it modified
    started                 \* caller: one record per call of iter(): how long the histories were

cfgVars == <<delay, moment, key_field, minimum_header_size, maximum_header_size, copy, timeline>>
callerVars == <<edited, started>>
vars == <<delay, moment, key_field, minimum_header_size, maximum_header_size, copy, timeline,
          stream_status, pc, exc, n, cur, mementos, y_queue, ids, tweets, taken, out, offers, fetches,
          edited, started>>

(***************************************************************************)
(* Values.  Python is dynamically typed and `t + d` is defined only for    *)
(* some pairs of types, so moments and delays carry their type.            *)
(***************************************************************************)
DateTime(v)  == [ty |-> "datetime",  v |-> v]
TimeDelta(v) == [ty |-> "timedelta", v |-> v]
PyInt(v)     == [ty |-> "int",       v |-> v]

None    == <<>>             \* the label of an unlabeled triple
Some(y) == <<y>>            \* a label read from a fetched tweet

\* datetime + timedelta and int + int are defined; datetime + int raises TypeError
CanAdd(t, d) ==
    \/ t.ty = "datetime" /\ d.ty = "timedelta"
    \/ t.ty = "int" /\ d.ty = "int"

\* mutant: the delay is forgotten
Add_NoDelay(t, d) == t

\* t + d
Add(t, d) == [ty |-> t.ty, v |-> t.v + d.v]

(***************************************************************************)
(* The tweets of the stream.  process() builds x with the fields id,       *)
(* created_at (a datetime) and text; the other fields play the part of     *)
(* text.  Tweet ids are unique: the k-th tweet the object takes from the   *)
(* stream has the k-th id.                                                 *)
(***************************************************************************)
TweetIds == <<"a", "b", "c", "d", "e", "f">>

Tweet(id, created_at) ==
    [id |-> id, created_at |-> DateTime(created_at), text |-> "tweet"]

\* the tweet the stream delivers as its k-th (k = 0, 1, ...), created at t
Incoming(k, t) == Tweet(TweetIds[k + 1], t)

\* the created_at values of the worked example: A (t=0), B (t=1), C (t=5), D (t=21)
ExampleTimeline == {0, 1, 5, 21}

DelayVals == (0 - 1)..MaxDelay

\* the forms of the constructor argument delay
Delays ==
    {[kind |-> "None"], [kind |-> "str", val |-> "retweet_count"], [kind |-> "callable"]}
    \cup {[kind |-> "scalar", val |-> TimeDelta(v)] : v \in DelayVals}

Labels == {0, 5}            \* retweet counts a fetched tweet may carry

(***************************************************************************)
(* Python helpers.                                                         *)
(***************************************************************************)
Min(a, b) == IF a <= b THEN a ELSE b
Max(a, b) == IF a >= b THEN a ELSE b

\* list[:stop]
PySlice(s, stop) ==
    IF stop >= 0 THEN SubSeq(s, 1, Min(stop, Len(s)))
    ELSE SubSeq(s, 1, Max(0, Len(s) + stop))

\* a dict is a sequence of [key, val] in insertion order
DictHas(q, k)  == \E j \in DOMAIN q : q[j].key = k
DictKeys(q)    == [j \in DOMAIN q |-> q[j].key]
\* mutant: the first entry is read whatever the key
DictGet_First(q, k) == q[1].val

DictGet(q, k)  == (CHOOSE e \in {q[j] : j \in DOMAIN q} : e.key = k).val
DictSet(q, k, v) ==
    IF DictHas(q, k)
    THEN [j \in DOMAIN q |-> IF q[j].key = k THEN [key |-> k, val |-> v] ELSE q[j]]
    ELSE Append(q, [key |-> k, val |-> v])
DictPop(q, k)  == SelectSeq(q, LAMBDA e : e.key # k)

Range(s) == {s[j] : j \in DOMAIN s}

(***************************************************************************)
(* Memento and the queue discipline of __iter__.                           *)
(***************************************************************************)
Memento(key, i, x, t_expire) == [key |-> key, i |-> i, x |-> x, t_expire |-> t_expire]

\* Memento.__lt__
MementoLt(self, other) == self.t_expire.v < other.t_expire.v

\* bisect.insort(q, el) is insort_right: el goes after the entries it is not less than
RECURSIVE BisectRight(_, _, _, _)
BisectRight(q, el, lo, hi) ==
    IF lo < hi
    THEN LET mid == (lo + hi) \div 2
         IN  IF MementoLt(el, q[mid + 1])
             THEN BisectRight(q, el, lo, mid)
             ELSE BisectRight(q, el, mid + 1, hi)
    ELSE lo

Insort(q, el) ==
    LET at == BisectRight(q, el, 0, Len(q))
    IN  SubSeq(q, 1, at) \o <<el>> \o SubSeq(q, at + 1, Len(q))

\* mutant: append whatever the form of the delay
Queue_AppendOnly(q, el) == Append(q, el)

\* the local function queue(q, el), chosen from the form of self.delay
Queue(q, el) ==
    IF delay.kind \in {"callable", "str"} THEN Insort(q, el) ELSE Append(q, el)

\* mutant: the head is left in the list
DelHead_Keep(q) == q

\* del mementos[0]
DelHead(q) == Tail(q)

\* mutant: the loop never breaks, every memento is taken
NotOldEnough_Never(t_expire, t) == FALSE

\* mutant: `>=` for `>`
NotOldEnough_Geq(t_expire, t) == t_expire.v >= t.v

\* the test `t_expire > t` that stops the while loop
NotOldEnough(t_expire, t) == t_expire.v > t.v

\* mutant: `>` for `>=`
BatchReady_Strict(q) == Len(q) > minimum_header_size

\* the test `len(self.y_queue) >= self.minimum_header_size`
BatchReady(q) == Len(q) >= minimum_header_size

\* mutant: the slice is forgotten
RequestIds_NoCap(q) == DictKeys(q)

\* mutant: the slice keeps the end of the list, the newest entries
RequestIds_Newest(q) ==
    SubSeq(DictKeys(q), Len(q) - Min(Len(q), maximum_header_size) + 1, Len(q))

\* ids = list(self.y_queue.keys())[: self.maximum_header_size]
RequestIds(q) == PySlice(DictKeys(q), maximum_header_size)

(***************************************************************************)
(* Coercion of moment and delay (get_moment, get_delay, get_key).          *)
(***************************************************************************)
\* mutant: the moment is read from created_at also when self.moment is None
get_moment_Field(i, x) == x.created_at

\* get_moment(i, x)
get_moment(i, x) ==
    IF moment = "None" THEN PyInt(i) ELSE x[moment]

\* get_delay is called as get_delay(i, x).  For a str delay the function is
\* get_delay(x, _): return x[self.delay], so it subscripts the int i.
DelayRaises == delay.kind = "str"

\* the values get_delay(i, x) may return when it does not raise
get_delay(i, x) ==
    CASE delay.kind = "None"     -> {PyInt(0)}
      [] delay.kind = "scalar"   -> {delay.val}
      [] delay.kind = "callable" -> {TimeDelta(v) : v \in DelayVals}
      [] OTHER                   -> {}

\* get_key(x)
get_key(x) == x[key_field]

(***************************************************************************)
(* Initial state: the object after __init__, before iteration starts.      *)
(***************************************************************************)
\* the constructor arguments, and the created_at values the run may see
Inputs ==
    [delay : Delays, min : 0..MaxMin, max : 0..MaxMax, timeline : {0..MaxT}]
    \cup {[delay |-> [kind |-> "scalar", val |-> TimeDelta(20)],
           min |-> 2, max |-> 10, timeline |-> ExampleTimeline]}

NoCur == [i |-> 0 - 1]

\* what every constructed object starts from, and the first call of iter()
AfterInit ==
    /\ stream_status = 0
    /\ pc = "start"
    /\ exc = ""
    /\ n = 0
    /\ cur = NoCur
    /\ mementos = <<>>
    /\ y_queue = <<>>
    /\ ids = <<>>
    /\ tweets = <<>>
    /\ taken = <<>>
    /\ out = <<>>
    /\ offers = <<>>
    /\ fetches = <<>>
    /\ edited = {}
    /\ started = <<[taken |-> 0, out |-> 0, offers |-> 0]>>

\* the default of the constructor: copy=True
Init ==
    /\ \E inp \in Inputs :
          /\ delay = inp.delay
          /\ minimum_header_size = inp.min
          /\ maximum_header_size = inp.max
          /\ timeline = inp.timeline
    /\ copy = TRUE
    /\ moment = "created_at"
    /\ key_field = "id"
    /\ AfterInit

Raise(e) ==
    /\ pc' = "raised"
    /\ exc' = e

(***************************************************************************)
(* twitter_stream(): the GET that opens the stream; a status other than    *)
(* 200 raises.                                                             *)
(***************************************************************************)
StreamStatuses == {200, 429}

OpenStream ==
    /\ pc = "start"
    /\ \E status \in StreamStatuses :
          /\ stream_status' = status
          /\ IF status # 200
             THEN Raise("Exception")
             ELSE pc' = "next" /\ exc' = exc
    /\ UNCHANGED <<cfgVars, callerVars, n, cur, mementos, y_queue, ids, tweets, taken, out, offers, fetches>>

(***************************************************************************)
(* for i, x in enumerate(self.twitter_stream()): t, d, key are computed.   *)
(***************************************************************************)
NextTweet ==
    /\ pc = "next"
    /\ Len(taken) < MaxEvents
    /\ \E created_at \in timeline :
          LET i == n
              x == Incoming(Len(taken), created_at)
          IN  /\ taken' = Append(taken, x)
              /\ IF DelayRaises
                 THEN /\ Raise("TypeError")
                      /\ cur' = [i |-> i, x |-> x, t |-> get_moment(i, x)]
                 ELSE /\ \E d \in get_delay(i, x) :
                           cur' = [i |-> i, x |-> x, t |-> get_moment(i, x), d |-> d,
                                   key |-> get_key(x)]
                      /\ pc' = "drain"
                      /\ exc' = exc
    /\ n' = n + 1
    /\ UNCHANGED <<cfgVars, callerVars, stream_status, mementos, y_queue, ids, tweets, out, offers, fetches>>

\* the stream is closed by the server: the for loop ends
EndOfStream ==
    /\ pc = "next"
    /\ pc' = "done"
    /\ UNCHANGED <<cfgVars, callerVars, stream_status, exc, n, cur, mementos, y_queue, ids, tweets, taken, out, offers, fetches>>

(***************************************************************************)
(* while mementos: the oldest memento is looked at; the loop is left when  *)
(* the list is empty or its head is not old enough.                        *)
(***************************************************************************)
LoopEnds ==
    IF mementos = <<>> THEN TRUE ELSE NotOldEnough(Head(mementos).t_expire, cur.t)

DrainStop ==
    /\ pc = "drain"
    /\ LoopEnds
    /\ pc' = "enqueue"
    /\ UNCHANGED <<cfgVars, callerVars, stream_status, exc, n, cur, mementos, y_queue, ids, tweets, taken, out, offers, fetches>>

(***************************************************************************)
(* targets(key_old, i_old, x_old), up to the HTTP request: the memento at  *)
(* the head is put into self.y_queue; below the minimum size targets()     *)
(* returns at once and the head is deleted from mementos.                  *)
(***************************************************************************)
Offer ==
    /\ pc = "drain"
    /\ ~LoopEnds
    /\ LET old == Head(mementos)
           q   == DictSet(y_queue, old.key, [i |-> old.i, x |-> old.x])
           rec == [i |-> old.i, key |-> old.key, t_expire |-> old.t_expire, by |-> cur.i,
                   t |-> cur.t, d |-> cur.d, size |-> Len(q), fetch |-> BatchReady(q)]
       IN  /\ y_queue' = q
           /\ offers' = Append(offers, rec)
           /\ IF BatchReady(q)
              THEN /\ ids' = RequestIds(q)
                   /\ fetches' = Append(fetches, [ids |-> RequestIds(q), size |-> Len(q),
                                                   by |-> cur.i, buffer |-> q,
                                                   status |-> 0, kind |-> "pending",
                                                   data |-> <<>>, done |-> FALSE])
                   /\ pc' = "fetch"
                   /\ UNCHANGED mementos
              ELSE /\ mementos' = DelHead(mementos)
                   /\ UNCHANGED <<ids, fetches, pc>>
    /\ UNCHANGED <<cfgVars, callerVars, stream_status, exc, n, cur, tweets, taken, out>>

(***************************************************************************)
(* The answers of GET /2/tweets?ids=...                                    *)
(*   "data"     200, a JSON body whose "data" lists some of the ids asked  *)
(*              for, each once, in the server's order                      *)
(*   "nodata"   a JSON body without "data": 200 when every tweet asked for *)
(*              is gone, or an error document such as 429                  *)
(*   "garbage"  a body that is not JSON (an error page)                    *)
(***************************************************************************)
RECURSIVE Arrangements(_)
Arrangements(S) ==
    {<<>>} \cup UNION {{<<e>> \o a : a \in Arrangements(S \ {e})} : e \in S}

FetchedData(req) ==
    UNION {{[j \in DOMAIN a |-> [id |-> a[j], retweet_count |-> l[j]]] :
              l \in [DOMAIN a -> Labels]} : a \in Arrangements(Range(req)) \ {<<>>}}

Responses(req) ==
    {[status |-> 200, kind |-> "data", data |-> dt] : dt \in FetchedData(req)}
    \cup {[status |-> st, kind |-> "nodata", data |-> <<>>] : st \in {200, 429}}
    \cup {[status |-> 503, kind |-> "garbage", data |-> <<>>]}

\* json.loads(response.text) raises on a body that is not JSON
JsonRaises(resp) == resp.kind = "garbage"

\* tweets["data"] if "data" in tweets, else nothing to iterate
DataOf(resp) == IF resp.kind = "data" THEN resp.data ELSE <<>>

SetLast(log, rec) == [log EXCEPT ![Len(log)] = rec]

Fetch ==
    /\ pc = "fetch"
    /\ \E resp \in Responses(ids) :
          /\ fetches' = SetLast(fetches, [fetches[Len(fetches)] EXCEPT
                                              !.status = resp.status, !.kind = resp.kind,
                                              !.data = resp.data])
          /\ IF JsonRaises(resp)
             THEN Raise("JSONDecodeError") /\ tweets' = tweets
             ELSE pc' = "emit" /\ exc' = exc /\ tweets' = DataOf(resp)
    /\ UNCHANGED <<cfgVars, callerVars, stream_status, n, cur, mementos, y_queue, ids, taken, out, offers>>

\* for tweet in tweets["data"]: pop the entry and yield (i_old, x_old, y_old)
EmitLabeled ==
    /\ pc = "emit"
    /\ tweets # <<>>
    /\ LET tweet == Head(tweets)
           y_old == tweet.retweet_count
       IN  IF DictHas(y_queue, tweet.id)
           THEN /\ out' = Append(out, [i |-> DictGet(y_queue, tweet.id).i,
                                        x |-> DictGet(y_queue, tweet.id).x,
                                        y |-> Some(y_old), gen |-> "targets"])
                /\ y_queue' = DictPop(y_queue, tweet.id)
                /\ tweets' = Tail(tweets)
                /\ UNCHANGED <<pc, exc>>
           ELSE /\ Raise("KeyError")
                /\ UNCHANGED <<out, y_queue, tweets>>
    /\ UNCHANGED <<cfgVars, callerVars, stream_status, n, cur, mementos, ids, taken, offers, fetches>>

\* mutant: the whole buffer is emptied
DropIds_All(q, req) == <<>>

\* mutant: the ids without an answer are kept
DropIds_Skip(q, req) == q

\* for id in ids: if id in self.y_queue: self.y_queue.pop(id)
DropIds(q, req) == SelectSeq(q, LAMBDA e : e.key \notin Range(req))

\* the end of targets(): deleted tweets are dropped; then del mementos[0]
DropDeleted ==
    /\ pc = "emit"
    /\ tweets = <<>>
    /\ y_queue' = DropIds(y_queue, ids)
    /\ mementos' = DelHead(mementos)
    /\ fetches' = SetLast(fetches, [fetches[Len(fetches)] EXCEPT !.done = TRUE])
    /\ pc' = "drain"
    /\ UNCHANGED <<cfgVars, callerVars, stream_status, exc, n, cur, ids, tweets, taken, out, offers>>

(***************************************************************************)
(* queue(mementos, Memento(key, i, x, t + d)); if self.copy: x =           *)
(* deepcopy(x); yield i, x, None.  The memento keeps the object x; the     *)
(* triple carries that same object, or with copy a new object equal to it. *)
(***************************************************************************)
\* mutant: the deepcopy is lost, the kept object is yielded whatever copy is
YieldsKeptObject_Always == TRUE

\* the object of the unlabeled triple is the one the memento keeps
YieldsKeptObject == ~copy

\* deepcopy(x): a new object with the same content
deepcopy(x) == [f \in DOMAIN x |-> x[f]]

\* mutant: the memento is queued but the unlabeled triple is not yielded
Enqueue_Unyielded ==
    /\ pc = "enqueue"
    /\ IF CanAdd(cur.t, cur.d)
       THEN /\ mementos' = Queue(mementos, Memento(cur.key, cur.i, cur.x, Add(cur.t, cur.d)))
            /\ pc' = "next"
            /\ exc' = exc
       ELSE /\ Raise("TypeError")
            /\ UNCHANGED mementos
    /\ UNCHANGED <<cfgVars, callerVars, stream_status, n, cur, y_queue, ids, tweets, taken, out,
                   offers, fetches>>

Enqueue ==
    /\ pc = "enqueue"
    /\ IF CanAdd(cur.t, cur.d)
       THEN /\ mementos' = Queue(mementos, Memento(cur.key, cur.i, cur.x, Add(cur.t, cur.d)))
            /\ out' = Append(out, [i |-> cur.i,
                                    x |-> IF copy THEN deepcopy(cur.x) ELSE cur.x,
                                    y |-> None, gen |-> "__iter__"])
            /\ pc' = "next"
            /\ exc' = exc
       ELSE /\ Raise("TypeError")
            /\ UNCHANGED <<mementos, out>>
    /\ UNCHANGED <<cfgVars, callerVars, stream_status, n, cur, y_queue, ids, tweets, taken, offers, fetches>>

(***************************************************************************)
(* The caller, while the generator is suspended at `yield i, x, None`,     *)
(* modifies in place the features it has just been handed (x["text"] =     *)
(* ...).  When that object is the one the memento keeps, the memento, and  *)
(* the local x of the suspended frame, show the modification.              *)
(***************************************************************************)
EditedText == "edited"

Modify(x) == [x EXCEPT !.text = EditedText]

ConsumerMutates ==
    /\ pc = "next"
    /\ out # <<>>
    /\ cur.i \notin edited
    /\ edited' = edited \cup {cur.i}
    /\ IF YieldsKeptObject
       THEN /\ mementos' = [m \in DOMAIN mementos |->
                               IF mementos[m].i = cur.i
                               THEN [mementos[m] EXCEPT !.x = Modify(@)]
                               ELSE mementos[m]]
            /\ cur' = [cur EXCEPT !.x = Modify(@)]
       ELSE UNCHANGED <<mementos, cur>>
    /\ UNCHANGED <<cfgVars, started, stream_status, pc, exc, n, y_queue, ids, tweets, taken, out,
                   offers, fetches>>

(***************************************************************************)
(* The caller calls iter() on the same object again, after the generator   *)
(* returned or raised, or abandoning it where it is suspended at a yield.  *)
(* __iter__ starts with mementos = [] and a new enumerate(); self.y_queue  *)
(* is assigned in __init__ only.                                           *)
(***************************************************************************)
\* the generator is suspended at the yield of targets()
AtLabeledYield ==
    /\ pc = "emit"
    /\ fetches # <<>>
    /\ Len(tweets) < Len(fetches[Len(fetches)].data)

Restart ==
    /\ pc \in {"next", "done", "raised"} \/ AtLabeledYield
    /\ Len(started) < MaxRuns
    /\ started' = Append(started, [taken |-> Len(taken), out |-> Len(out),
                                    offers |-> Len(offers)])
    /\ pc' = "start"
    /\ exc' = ""
    /\ stream_status' = 0
    /\ n' = 0
    /\ cur' = NoCur
    /\ mementos' = <<>>
    /\ ids' = <<>>
    /\ tweets' = <<>>
    /\ UNCHANGED <<cfgVars, edited, y_queue, taken, out, offers, fetches>>

Next ==
    \/ OpenStream
    \/ NextTweet
    \/ EndOfStream
    \/ DrainStop
    \/ Offer
    \/ Fetch
    \/ EmitLabeled
    \/ DropDeleted
    \/ Enqueue

Spec == Init /\ [][Next]_vars

(***************************************************************************)
(* The object built with copy=True or copy=False, and a caller that        *)
(* modifies the features it is handed.                                     *)
(***************************************************************************)
CopyInputs ==
    [delay : {[kind |-> "scalar", val |-> TimeDelta(v)] : v \in 0..MaxDelay},
     min : 1..MaxMin, max : 1..MaxMax, timeline : {0..MaxT}]

InitCopy ==
    /\ \E inp \in CopyInputs :
          /\ delay = inp.delay
          /\ minimum_header_size = inp.min
          /\ maximum_header_size = inp.max
          /\ timeline = inp.timeline
    /\ copy \in BOOLEAN
    /\ moment = "created_at"
    /\ key_field = "id"
    /\ AfterInit

NextCopy ==
    \/ Next
    \/ ConsumerMutates

SpecCopy == InitCopy /\ [][NextCopy]_vars

(***************************************************************************)
(* The object with self.moment set to None after construction (the class   *)
(* documents moment=None: tweets are timestamped by their order of         *)
(* arrival), and a delay that can be added to an index: None or an int.    *)
(***************************************************************************)
UnsetInputs ==
    [delay : {[kind |-> "None"]} \cup {[kind |-> "scalar", val |-> PyInt(v)] : v \in 0..MaxDelay},
     min : 0..MaxMin, max : 0..MaxMax, timeline : {0..MaxT}]

InitUnset ==
    /\ \E inp \in UnsetInputs :
          /\ delay = inp.delay
          /\ minimum_header_size = inp.min
          /\ maximum_header_size = inp.max
          /\ timeline = inp.timeline
    /\ copy = TRUE
    /\ moment = "None"
    /\ key_field = "id"
    /\ AfterInit

SpecUnset == InitUnset /\ [][Next]_vars

(***************************************************************************)
(* The object iterated over more than once.                                *)
(***************************************************************************)
NextRerun ==
    \/ Next
    \/ Restart

SpecRerun == Init /\ [][NextRerun]_vars

(***************************************************************************)
(* Views of the history used by the properties.                            *)
(***************************************************************************)
\* the triples by the yield statement they come from
Unlabeled == SelectSeq(out, LAMBDA tr : tr.gen = "__iter__")
Labeled   == SelectSeq(out, LAMBDA tr : tr.gen = "targets")

\* the control has left targets(): no request in flight, no answer half read
OutsideTargets == pc \in {"drain", "enqueue", "next", "done"}

\* exceptions that report a failure of the connector, not of the loop itself
ConnectorErrors == {"Exception", "JSONDecodeError"}

(***************************************************************************)
(* C1.  For every sequence of arriving tweets, whatever the form of delay  *)
(* and whatever the fetches return, the unlabeled triples (i, x, None)     *)
(* come out in arrival order with the indices 0, 1, ..., N-1, one per      *)
(* tweet taken from the stream: every tweet whose loop iteration is over   *)
(* for a reason other than a connector failure has its unlabeled triple.   *)
(***************************************************************************)
C1_UnlabeledPerArrival ==
    /\ Len(Unlabeled) <= Len(taken)
    /\ \A j \in DOMAIN Unlabeled :
          Unlabeled[j].i = j - 1 /\ Unlabeled[j].x = taken[j] /\ Unlabeled[j].y = None
    /\ pc \in {"next", "done"} => Len(Unlabeled) = n
    /\ pc = "raised" /\ exc \notin ConnectorErrors => Len(Unlabeled) = n

(***************************************************************************)
(* C2.  Every request of targets() is made with at least                   *)
(* minimum_header_size entries in self.y_queue, and every call of          *)
(* targets() that brings self.y_queue to minimum_header_size entries or    *)
(* more makes a request in that same call: no call leaves the buffer at or *)
(* above the minimum without having asked.                                 *)
(***************************************************************************)
C2_FetchIffMinimum ==
    /\ \A k \in DOMAIN fetches : fetches[k].size >= minimum_header_size
    /\ \A k \in DOMAIN offers :
          offers[k].size >= minimum_header_size => offers[k].fetch
    /\ Len(fetches) =
          Cardinality({k \in DOMAIN offers : offers[k].size >= minimum_header_size})
    /\ OutsideTargets /\ offers # <<>> /\ Len(y_queue) >= minimum_header_size
          => offers[Len(offers)].fetch

\* a call below the minimum returned without a request, a later one asked
C2_Witness ==
    /\ minimum_header_size = 2
    /\ Len(offers) >= 2
    /\ ~offers[1].fetch
    /\ offers[2].fetch
    /\ Len(fetches) = 1
    /\ pc = "next"

(***************************************************************************)
(* C3.  No request of targets() asks for more than maximum_header_size     *)
(* ids, whatever the size of self.y_queue and whether the maximum is below *)
(* or above the minimum.                                                   *)
(***************************************************************************)
C3_AtMostMaximum ==
    \A k \in DOMAIN fetches : Len(fetches[k].ids) <= maximum_header_size

\* a request made with more entries buffered than the maximum allows
C3_Witness ==
    \E k \in DOMAIN fetches :
        /\ fetches[k].size > maximum_header_size
        /\ maximum_header_size < minimum_header_size
        /\ Len(fetches[k].ids) = maximum_header_size
        /\ maximum_header_size >= 1

(***************************************************************************)
(* C4.  An id that was asked for and is missing from the answer is gone    *)
(* from self.y_queue once targets() has finished, is in no later request,  *)
(* and no labeled triple is ever yielded for its tweet.                    *)
(***************************************************************************)
Returned(f) == {f.data[j].id : j \in DOMAIN f.data}
Omitted(f)  == Range(f.ids) \ Returned(f)

C4_OmittedIsDropped ==
    \A k \in DOMAIN fetches :
        fetches[k].done =>
            \A id \in Omitted(fetches[k]) :
                /\ ~DictHas(y_queue, id)
                /\ \A later \in (k + 1)..Len(fetches) : id \notin Range(fetches[later].ids)
                /\ \A j \in DOMAIN Labeled : Labeled[j].x.id # id

\* a 200 answer left out an id, and a later request brought a label for another tweet
C4_Witness ==
    /\ Len(fetches) >= 2
    /\ fetches[1].status = 200
    /\ Omitted(fetches[1]) # {}
    /\ fetches[2].done
    /\ Labeled # <<>>

(***************************************************************************)
(* C5.  Over a run every tweet (every index) is taken from mementos and    *)
(* handed to targets() at most once, and is yielded with a label at most   *)
(* once: no index is in two labeled triples.                               *)
(***************************************************************************)
C5_AtMostOnce ==
    /\ \A j, k \in DOMAIN offers : offers[j].i = offers[k].i => j = k
    /\ \A j, k \in DOMAIN Labeled : Labeled[j].i = Labeled[k].i => j = k
    /\ \A k \in DOMAIN offers :
          \A m \in DOMAIN mementos :
              mementos[m].i = offers[k].i => m = 1 /\ k = Len(offers) /\ ~OutsideTargets

\* three tweets were handed over and two of them came back with a label
C5_Witness ==
    /\ Len(offers) >= 3
    /\ Len(Labeled) >= 2
    /\ pc = "done"

(***************************************************************************)
(* C6.  As stated: while draining for an incoming tweet, mementos are      *)
(* taken from the head exactly while the head's t_expire is at most the    *)
(* due time (moment + delay) of the incoming tweet, and draining stops at  *)
(* the first head that expires after that due time.                        *)
(***************************************************************************)
C6_DrainUpToIncomingDue ==
    /\ \A k \in DOMAIN offers :
          offers[k].t_expire.v <= offers[k].t.v + offers[k].d.v
    /\ pc = "enqueue" /\ mementos # <<>>
          => Head(mementos).t_expire.v > cur.t.v + cur.d.v

(***************************************************************************)
(* C6, amended.  The reference time of the drain is the moment of the      *)
(* incoming tweet, without its delay: mementos are taken from the head     *)
(* exactly while the head's t_expire is at most that moment, and draining  *)
(* stops at the first head that expires after it.                          *)
(***************************************************************************)
C6_DrainUpToIncomingMoment ==
    /\ \A k \in DOMAIN offers : offers[k].t_expire.v <= offers[k].t.v
    /\ pc = "enqueue" /\ mementos # <<>> => Head(mementos).t_expire.v > cur.t.v

\* a drain took a memento and stopped at a head that is due before moment + delay
C6_Witness ==
    /\ pc = "enqueue"
    /\ mementos # <<>>
    /\ offers # <<>>
    /\ offers[Len(offers)].by = cur.i
    /\ Head(mementos).t_expire.v <= cur.t.v + cur.d.v

(***************************************************************************)
(* C7.  delay = 20, minimum_header_size = 2, maximum_header_size = 10 and  *)
(* the tweets A (t=0), B (t=1), C (t=5), D (t=21) with the ids a, b, c, d  *)
(* in that order: nothing is requested before D arrives; when D arrives    *)
(* exactly A and B are handed to targets() and exactly one request is      *)
(* made, for the ids [a, b]; if its answer holds only a with the count 5,  *)
(* then (0, A, 5) is yielded, nothing is yielded for B, self.y_queue is    *)
(* empty afterwards and C is still in mementos, due at 25.                 *)
(***************************************************************************)
ExampleFeed == <<Tweet("a", 0), Tweet("b", 1), Tweet("c", 5), Tweet("d", 21)>>

IsPrefix(s, t) == Len(s) <= Len(t) /\ \A j \in DOMAIN s : s[j] = t[j]

InExample ==
    /\ delay = [kind |-> "scalar", val |-> TimeDelta(20)]
    /\ minimum_header_size = 2
    /\ maximum_header_size = 10
    /\ IsPrefix(taken, ExampleFeed)

C7_WorkedExample ==
    InExample =>
        /\ Len(taken) < 4 => offers = <<>> /\ fetches = <<>>
        /\ IsPrefix([k \in DOMAIN offers |-> offers[k].i], <<0, 1>>)
        /\ Len(fetches) <= 1
        /\ Len(taken) = 4 /\ pc \in {"enqueue", "next", "done"} =>
              /\ [k \in DOMAIN offers |-> offers[k].i] = <<0, 1>>
              /\ Len(fetches) = 1
              /\ fetches[1].ids = <<"a", "b">>
              /\ fetches[1].data = <<[id |-> "a", retweet_count |-> 5]>> =>
                    /\ Labeled = <<[i |-> 0, x |-> Tweet("a", 0), y |-> Some(5),
                                    gen |-> "targets"]>>
                    /\ y_queue = <<>>
                    /\ mementos # <<>>
                    /\ Head(mementos) = Memento("c", 2, Tweet("c", 5), DateTime(25))

\* the example was run to the unlabeled triple of D, the answer being {a: 5}
C7_Witness ==
    /\ InExample
    /\ Len(taken) = 4
    /\ pc = "next"
    /\ Len(fetches) = 1
    /\ fetches[1].data = <<[id |-> "a", retweet_count |-> 5]>>
    /\ Len(out) = 5

(***************************************************************************)
(* C8.  As stated: in every reachable state mementos is ordered by         *)
(* non-decreasing t_expire, equal t_expire in arrival order, both when     *)
(* entries are inserted by bisection (delay a field name or a callable)    *)
(* and when they are appended (delay a constant or None), for every        *)
(* sequence of arriving tweets.                                            *)
(***************************************************************************)
SortedStable(q) ==
    \A a, b \in DOMAIN q :
        a < b => \/ q[a].t_expire.v < q[b].t_expire.v
                 \/ q[a].t_expire.v = q[b].t_expire.v /\ q[a].i < q[b].i

C8_AlwaysSorted == SortedStable(mementos)

(***************************************************************************)
(* C8, amended.  mementos is ordered by non-decreasing t_expire, equal     *)
(* t_expire in arrival order, for every sequence of arriving tweets when   *)
(* entries are inserted by bisection, and, when entries are appended, for  *)
(* the sequences whose moments (created_at) never decrease from one        *)
(* arrival to the next.                                                    *)
(***************************************************************************)
MomentsNeverDecrease ==
    \A a, b \in DOMAIN taken : a < b => taken[a].created_at.v <= taken[b].created_at.v

C8_SortedWhenInsortOrMonotone ==
    delay.kind \in {"callable", "str"} \/ MomentsNeverDecrease => SortedStable(mementos)

\* three mementos inserted by bisection, out of arrival order and with a tie
C8_Witness ==
    /\ delay.kind = "callable"
    /\ Len(mementos) >= 3
    /\ ~MomentsNeverDecrease
    /\ \E a, b \in DOMAIN mementos : a < b /\ mementos[a].i > mementos[b].i
    /\ \E a, b \in DOMAIN mementos :
          a < b /\ mementos[a].t_expire = mementos[b].t_expire

(***************************************************************************)
(* C9.  A status other than 200 propagates to the caller: when the GET     *)
(* that opens the stream answers with one, nothing is yielded and the      *)
(* generator raises; when a request of targets() is answered with one, the *)
(* generator raises at that point, no further request is made and the      *)
(* answer is not read as a result.                                         *)
(***************************************************************************)
C9_ErrorStatusRaises ==
    /\ stream_status \notin {0, 200} => pc = "raised" /\ out = <<>>
    /\ \A k \in DOMAIN fetches :
          fetches[k].kind # "pending" /\ fetches[k].status # 200 =>
              /\ pc = "raised"
              /\ exc \in ConnectorErrors
              /\ k = Len(fetches)
              /\ ~fetches[k].done

(***************************************************************************)
(* C10.  Every labeled triple (i, x, y) that is yielded has a real label   *)
(* (never None); the tweet with index i arrived before and was yielded     *)
(* unlabeled, x is the features of that tweet, and y is the count an       *)
(* answer returned for the id of that tweet.  Hence an index for which no  *)
(* answer held a count is in no labeled triple.                            *)
(***************************************************************************)
C10_LabeledTriplesAreReal ==
    \A j \in DOMAIN out :
        out[j].gen = "targets" =>
            /\ out[j].y # None
            /\ out[j].y[1] \in Labels
            /\ out[j].i \in 0..(Len(taken) - 1)
            /\ out[j].x = taken[out[j].i + 1]
            /\ \E e \in 1..(j - 1) :
                  out[e] = [i |-> out[j].i, x |-> out[j].x, y |-> None, gen |-> "__iter__"]
            /\ \E k \in DOMAIN fetches :
                  \E m \in DOMAIN fetches[k].data :
                      fetches[k].data[m] = [id |-> out[j].x.id, retweet_count |-> out[j].y[1]]

\* one answer returned two tweets, in the reverse of the order asked, with different counts
C10_Witness ==
    /\ Len(Labeled) >= 2
    /\ Labeled[1].i > Labeled[2].i
    /\ Labeled[1].y # Labeled[2].y
    /\ Len(fetches) = 1
    /\ pc = "next"

(***************************************************************************)
(* C11.  With copy set, whatever the caller does to the features of an     *)
(* unlabeled triple it was handed, the features kept in mementos and in    *)
(* self.y_queue stay as they were when the tweet arrived, and the features *)
(* of the labeled triple yielded later for the same index are the features *)
(* the tweet arrived with.                                                 *)
(***************************************************************************)
C11_CopyShieldsSnapshot ==
    copy =>
        /\ \A m \in DOMAIN mementos : mementos[m].x = taken[mementos[m].i + 1]
        /\ \A j \in DOMAIN y_queue : y_queue[j].val.x = taken[y_queue[j].val.i + 1]
        /\ \A j \in DOMAIN Labeled : Labeled[j].x = taken[Labeled[j].i + 1]

\* with copy, the caller modified the features of a tweet that was later yielded with a label
C11_Witness ==
    /\ copy
    /\ \E j \in DOMAIN Labeled :
          /\ Labeled[j].i \in edited
          /\ Labeled[j].x.text = "tweet"
    /\ \E m \in DOMAIN mementos : mementos[m].i \in edited

(***************************************************************************)
(* C12.  Every time iteration over the object begins, mementos is empty,   *)
(* self.y_queue is empty and the index is 0; and self.y_queue only ever    *)
(* holds tweets taken from the stream in the current iteration, so that no *)
(* entry left by an earlier iteration, finished or abandoned, is asked for *)
(* or yielded in a later one.                                              *)
(***************************************************************************)
\* the position in taken of the tweet with this id
TakenAt(id) == CHOOSE k \in DOMAIN taken : taken[k].id = id

\* the number of tweets the object had taken when the current iteration began
RunBase == started[Len(started)].taken

C12_EveryRunStartsEmpty ==
    /\ pc = "start" => mementos = <<>> /\ y_queue = <<>> /\ n = 0
    /\ \A j \in DOMAIN y_queue : TakenAt(y_queue[j].key) > RunBase
    /\ pc = "fetch" => \A j \in DOMAIN ids : TakenAt(ids[j]) > RunBase

(***************************************************************************)
(* C13.  When the stream ends the generator returns without a final flush: *)
(* the last triple yielded is the unlabeled triple of the last tweet, the  *)
(* tweets still in mementos (the last tweet is always one of them) or in   *)
(* self.y_queue have no labeled triple, and an iteration that took N >= 1  *)
(* tweets has yielded at most N-1 labeled triples.                         *)
(***************************************************************************)
\* the triples yielded by the current iteration
RunOut == SubSeq(out, started[Len(started)].out + 1, Len(out))

RunLabeled == SelectSeq(RunOut, LAMBDA tr : tr.gen = "targets")

LabeledIds == {Labeled[j].x.id : j \in DOMAIN Labeled}

C13_NoFinalFlush ==
    pc = "done" /\ n >= 1 =>
        /\ out # <<>>
        /\ out[Len(out)].gen = "__iter__"
        /\ out[Len(out)].i = n - 1
        /\ \E m \in DOMAIN mementos : mementos[m].i = n - 1
        /\ \A m \in DOMAIN mementos : mementos[m].key \notin LabeledIds
        /\ \A j \in DOMAIN y_queue : y_queue[j].key \notin LabeledIds
        /\ Len(RunLabeled) <= n - 1

(***************************************************************************)
(* C14.  With self.moment None and delay None, t_expire of every memento   *)
(* is the index of its tweet (index + 0 never raises); the tweet with      *)
(* index i is taken from mementos and handed to targets() when the tweet   *)
(* with index i + 1 arrives, so every arrival after the first empties      *)
(* mementos before it is queued, and mementos holds exactly one memento,   *)
(* that of the last tweet, after every iteration of the for loop.          *)
(***************************************************************************)
BothUnset == moment = "None" /\ delay.kind = "None"

OfferCompleted ==
    /\ pc \in {"drain", "enqueue", "next", "done"}
    /\ Len(offers) > started[Len(started)].offers

\* the generator is suspended at one of its two yields
TripleHanded == (pc = "next" /\ n >= 1) \/ AtLabeledYield

C15_BufferBelowMinimum ==
    minimum_header_size >= 1 /\ maximum_header_size >= 1 =>
        /\ Len(y_queue) <= minimum_header_size
        /\ OfferCompleted \/ TripleHanded => Len(y_queue) < minimum_header_size

(***************************************************************************)
(* C16.  A request made with s entries in self.y_queue asks for exactly    *)
(* min(s, maximum_header_size) of them, each once, and they are the ones   *)
(* that were handed to targets() first: every entry asked for was handed   *)
(* over before every entry of the buffer that is left out of the request.  *)
(***************************************************************************)
\* the call of targets() that put this key into the buffer
OfferOf(key) == CHOOSE k \in DOMAIN offers : offers[k].key = key

C16_OldestOfferedFirst ==
    pc = "fetch" =>
        /\ Len(ids) = Min(Len(y_queue), maximum_header_size)
        /\ \A j \in DOMAIN ids : DictHas(y_queue, ids[j])
        /\ \A j, k \in DOMAIN ids : j < k => OfferOf(ids[j]) < OfferOf(ids[k])
        /\ \A j \in DOMAIN ids :
              \A e \in DOMAIN y_queue :
                  y_queue[e].key \notin Range(ids)
                      => OfferOf(ids[j]) < OfferOf(y_queue[e].key)

\* a request that leaves the newest entry of the buffer out
C16_Witness ==
    /\ pc = "fetch"
    /\ Len(ids) >= 1
    /\ Len(y_queue) > Len(ids)
    /\ ids[1] = y_queue[1].key

(***************************************************************************)
(* C17.  Every labeled triple comes after the unlabeled triple of the same *)
(* index, whatever the delay (zero and negative included); and a labeled   *)
(* triple whose label came with a request made while the tweet j was the   *)
(* incoming one belongs to an earlier tweet and comes before the unlabeled *)
(* triple of j.                                                            *)
(***************************************************************************)
C17_LabeledAfterOwnBeforeIncoming ==
    \A p \in DOMAIN out :
        out[p].gen = "targets" =>
            /\ \E e \in 1..(p - 1) : out[e].gen = "__iter__" /\ out[e].i = out[p].i
            /\ \A k \in DOMAIN fetches :
                  out[p].x.id \in Returned(fetches[k]) =>
                      /\ out[p].i < fetches[k].by
                      /\ \A e \in DOMAIN out :
                            out[e].gen = "__iter__" /\ out[e].i = fetches[k].by => p < e

\* with a negative delay, a tweet was labeled while the next one was coming in, and
\* the unlabeled triple of that next tweet followed
C17_Witness ==
    /\ delay.kind = "scalar"
    /\ delay.val.v < 0
    /\ Len(out) >= 3
    /\ out[1].gen = "__iter__"
    /\ out[2].gen = "targets"
    /\ out[2].i = 0
    /\ out[3].gen = "__iter__"
    /\ out[3].i = 1

(***************************************************************************)
(* C18.  No tweet is handed to targets(), and so no label is asked for it, *)
(* before it is due: at every call of targets() the t_expire of the        *)
(* memento handed over is at most the moment (created_at) of the incoming  *)
(* tweet, which arrived after the tweet of the memento; and every id of a  *)
(* request is that of a tweet handed over so.                              *)
(***************************************************************************)
\* targets() is running: the memento at the head is the one handed over
InTargets == pc \in {"fetch", "emit"}

C18_NotOfferedBeforeDue ==
    /\ \A k \in DOMAIN offers :
          /\ offers[k].i < offers[k].by
          /\ offers[k].t = taken[offers[k].by + 1].created_at
          /\ offers[k].t_expire.v <= taken[offers[k].by + 1].created_at.v
    /\ InTargets => Head(mementos).t_expire.v <= cur.x.created_at.v
    /\ \A f \in DOMAIN fetches :
          \A j \in DOMAIN fetches[f].ids :
              \E k \in DOMAIN offers :
                  /\ offers[k].key = fetches[f].ids[j]
                  /\ offers[k].by <= fetches[f].by

\* a tweet was handed over at the very moment it fell due, another one after it
\* fell due, and one request asked for two ids
C18_Witness ==
    /\ \E k \in DOMAIN offers : offers[k].t_expire.v = offers[k].t.v
    /\ \E k \in DOMAIN offers : offers[k].t_expire.v < offers[k].t.v
    /\ \E f \in DOMAIN fetches : Len(fetches[f].ids) = 2
    /\ pc = "next"

(***************************************************************************)
(* C19.  With minimum_header_size >= 1 and maximum_header_size >= 1, as    *)
(* long as requests are answered and tweets keep arriving, every tweet     *)
(* that arrived is in the end handed to targets().  A generator that has   *)
(* stopped can hand over nothing more, so the claim requires that the      *)
(* generator never stops, for a reason other than a failed request or the  *)
(* end of the stream, while a tweet it took has not been handed over.      *)
(***************************************************************************)
OfferedIds == {offers[k].key : k \in DOMAIN offers}

C19_NeverStopsOwing ==
    /\ minimum_header_size >= 1
    /\ maximum_header_size >= 1
    /\ pc = "raised"
    /\ exc \notin ConnectorErrors
    => \A k \in DOMAIN taken : taken[k].id \in OfferedIds

(***************************************************************************)
(* C20.  A request changes only the entries it asked for.  While targets() *)
(* runs, the index and the locals of the loop do not change, mementos does *)
(* not change, and an entry leaves self.y_queue only if its id was asked   *)
(* for; when targets() has returned, self.y_queue is what it was when the  *)
(* request was made without the ids asked for, answered or not, the other  *)
(* entries being unchanged and in the same order, and the only change of   *)
(* mementos is that of line 269 of __iter__, which deletes the memento     *)
(* that was handed over.                                                   *)
(***************************************************************************)
\* q without the entries whose keys are in req, order kept
Without(q, req) == SelectSeq(q, LAMBDA e : e.key \notin Range(req))

FetchStepFrame ==
    InTargets =>
        /\ n' = n
        /\ cur' = cur
        /\ ids' = ids
        /\ IF pc' = "drain"
           THEN /\ y_queue' = Without(fetches[Len(fetches)].buffer, ids)
                /\ mementos' = Tail(mementos)
           ELSE /\ mementos' = mementos
                /\ \E gone \in SUBSET Range(ids) :
                      y_queue' = SelectSeq(y_queue, LAMBDA e : e.key \notin gone)

C20_FetchChangesOnlyRequested == [][FetchStepFrame]_vars

\* a request for one of two entries has been completed and the other entry is still there
C20_Witness ==
    /\ fetches # <<>>
    /\ fetches[Len(fetches)].done
    /\ Len(fetches[Len(fetches)].buffer) = 2
    /\ Len(fetches[Len(fetches)].ids) = 1
    /\ pc = "drain"
    /\ Len(y_queue) = 1
    /\ y_queue[1] = fetches[Len(fetches)].buffer[2]

=============================================================================
